---- MODULE Spec2Model ----
(***************************************************************************)
(* Model of generate_codesystem (src/generate.py): the transformation of   *)
(* an ontology (pronto) into a FHIR CodeSystem document and its export to  *)
(* the output file.                                                        *)
(*                                                                         *)
(* Python values are modelled as follows.  A str is a TLA+ string, except  *)
(* the metadata version token and the strings derived from it, which are   *)
(* sequences of one-character strings so that split("/") is computed.  An  *)
(* optional value is [some |-> FALSE] (None) or [some |-> TRUE, v |-> x].  *)
(* An object whose field was never assigned has no such field in its       *)
(* record (the field is absent from the exported document).                *)
(***************************************************************************)
EXTENDS Naturals, Sequences, FiniteSets, TLC

VARIABLES
    source,     \* the ontology snapshot behind the url (line 22)
    hpo,        \* the loaded ontology (line 40)
    stelsel,    \* the CodeSystem under construction (lines 47-62)
    i,          \* number of terms the loop of line 71 has consumed
    pc,         \* position of the run
    file,       \* the output file hp.owl.json (line 26)
    run,        \* which run of the program this is
    prev        \* the document the previous run wrote

vars == <<source, hpo, stelsel, i, pc, file, run, prev>>

----------------------------------------------------------------------------
(* Bounds of the model *)

MaxTerms == 3       \* terms of an ontology
MaxSyn == 2         \* synonyms of a term
MaxLen == 3         \* characters of the metadata version token

----------------------------------------------------------------------------
(* Python values *)

None == [some |-> FALSE]
Some(x) == [some |-> TRUE, v |-> x]

Range(s) == {s[k] : k \in DOMAIN s}

\* The orders in which a Python set may be iterated.
Orders(S) == {f \in [1..Cardinality(S) -> S] : \A a, b \in DOMAIN f : f[a] = f[b] => a = b}

----------------------------------------------------------------------------
(* The ontologies the provider may return *)

IdPool == <<"HP:0000118", "HP:0000001", "HP:0001250", "HP:0000005", "HP:0012823">>
Definitions == {None, Some(""), Some("A structural anomaly.")}
Scopes == {"EXACT", "RELATED", "BROAD"}
SynTexts == <<"Fits", "Epilepsy", "Convulsions", "Attacks">>
XrefIds == {"UMLS:C0036572", "SNOMEDCT_US:91175000"}
SubsetTags == {"hposlim_core", "secondary_consequence"}
Chars == {"/", "r", "1"}
DefaultVersion == <<"r", "/", "1">>

Term(id, name, obsolete, definition, synonyms, xrefs, subsets) ==
    [id |-> id, name |-> name, obsolete |-> obsolete, definition |-> definition,
     synonyms |-> synonyms, xrefs |-> xrefs, subsets |-> subsets]

Ontology(data_version, terms, is_a) ==
    [metadata |-> [data_version |-> data_version], terms |-> terms, is_a |-> is_a]

PlainTerm(k) == Term(IdPool[k], "Phenotypic abnormality", FALSE, None, <<>>, {}, {})
RichTerm(k) ==
    Term(IdPool[k], "Seizure", TRUE, Some("A structural anomaly."),
         <<[scope |-> "RELATED", description |-> SynTexts[1]],
           [scope |-> "EXACT", description |-> SynTexts[2]]>>,
         XrefIds, SubsetTags)

SynonymLists ==
    UNION {{[k \in 1..m |-> [scope |-> sc[k], description |-> SynTexts[k]]] :
                sc \in [1..m -> Scopes]} : m \in 0..MaxSyn}

\* The is_a edges <<child, parent>> of a hierarchy without cycles: the parent
\* comes earlier in the term iteration (Down) or later (Up).
Down(n) == {<<IdPool[e[1]], IdPool[e[2]]>> : e \in {f \in (1..n) \X (1..n) : f[2] < f[1]}}
Up(n) == {<<e[2], e[1]>> : e \in Down(n)}
Star(n) == {<<IdPool[k], IdPool[1]>> : k \in 2..n}
Chain(n) == {<<IdPool[k + 1], IdPool[k]>> : k \in 1..(n - 1)}

VersionTokens == UNION {[1..m -> Chars] : m \in 0..MaxLen}

\* Terms that differ in obsolete flag and definition.
FamScalar(o) ==
    \E n \in 0..MaxTerms : \E c \in [1..n -> BOOLEAN \X Definitions] :
        o = Ontology(Some(DefaultVersion),
                     [k \in 1..n |-> [PlainTerm(k) EXCEPT !.obsolete = c[k][1],
                                                          !.definition = c[k][2]]],
                     {})

\* Terms that differ in their synonyms: two lists, taken in turn by the terms.
FamSynonym(o) ==
    \E n \in 1..MaxTerms : \E c \in [0..1 -> SynonymLists] :
        o = Ontology(Some(DefaultVersion),
                     [k \in 1..n |-> [PlainTerm(k) EXCEPT !.synonyms = c[k % 2]]],
                     {})

\* Terms that differ in their cross-references, and in their subsets.
FamXref(o) ==
    \E n \in 1..MaxTerms : \E c \in [1..n -> SUBSET XrefIds] :
        o = Ontology(Some(DefaultVersion),
                     [k \in 1..n |-> [PlainTerm(k) EXCEPT !.xrefs = c[k]]],
                     {})

FamSubset(o) ==
    \E n \in 1..MaxTerms : \E c \in [1..n -> SUBSET SubsetTags] :
        o = Ontology(Some(DefaultVersion),
                     [k \in 1..n |-> [PlainTerm(k) EXCEPT !.subsets = c[k]]],
                     {})

\* Every hierarchy without cycles over the terms.
FamHierarchy(o) ==
    \E n \in 1..MaxTerms : \E e \in (SUBSET Down(n)) \cup (SUBSET Up(n)) :
        o = Ontology(Some(DefaultVersion), [k \in 1..n |-> PlainTerm(k)], e)

\* Terms that have every kind of property at once, in a star or a chain.
FamRich(o) ==
    \E n \in 1..MaxTerms : \E c \in [1..n -> BOOLEAN], e \in {{}, Star(n), Chain(n)} :
        o = Ontology(Some(DefaultVersion),
                     [k \in 1..n |-> IF c[k] THEN RichTerm(k) ELSE PlainTerm(k)],
                     e)

\* Every metadata version token, the missing one included.
FamVersion(o) ==
    \E v \in {None} \cup {Some(t) : t \in VersionTokens}, n \in 0..1 :
        o = Ontology(v, [k \in 1..n |-> PlainTerm(k)], {})

\* The ontologies the provider may return
IsOntology(o) ==
    \/ FamScalar(o)
    \/ FamSynonym(o)
    \/ FamXref(o)
    \/ FamSubset(o)
    \/ FamHierarchy(o)
    \/ FamRich(o)
    \/ FamVersion(o)

----------------------------------------------------------------------------
(* Settings and literals of generate_codesystem *)

codesystem_url == "http://purl.obolibrary.org/obo/hp.owl"
codesystem_experimental == TRUE
ValueSetUrl == "http://purl.obolibrary.org/obo/hp.owl?vs"

\* "http://purl.obolibrary.org/obo/hp/" and "/hp.owl", character by character
VersionBase ==
    <<"h", "t", "t", "p", ":", "/", "/", "p", "u", "r", "l", ".", "o", "b", "o", "l", "i", "b", "r", "a", "r", "y", ".", "o", "r", "g", "/", "o", "b", "o", "/", "h", "p", "/">>
VersionSuffix == <<"/", "h", "p", ".", "o", "w", "l">>
NoneText == <<"N", "o", "n", "e">>

SynonymUse ==
    [system |-> "http://snomed.info/sct", code |-> "900000000000013009", display |-> "Synonym"]

----------------------------------------------------------------------------
(* The collaborators' operations the program calls *)

\* str(x) of a value that is a str already: the same string.
Str(x) == x

\* Interpolation of a value into an f-string: None is written "None".
Format(v) == IF v.some THEN v.v ELSE NoneText

\* s.split(sep): the pieces of s between the occurrences of sep.
RECURSIVE Split(_, _)
Split(s, sep) ==
    IF \E k \in 1..Len(s) : s[k] = sep
    THEN LET c == CHOOSE k \in 1..Len(s) : s[k] = sep /\ \A j \in 1..(k - 1) : s[j] # sep
         IN  <<SubSeq(s, 1, c - 1)>> \o Split(SubSeq(s, c + 1, Len(s)), sep)
    ELSE <<s>>

\* l[-1]
Last(l) == l[Len(l)]

\* bool(x) of an optional string
Truthy(x) == x.some /\ x.v # ""

\* The identifiers within `distance` is_a steps above the identifiers of S.
RECURSIVE Above(_, _, _)
Above(o, S, distance) ==
    IF distance = 0 THEN S
    ELSE Above(o, S \cup {e[2] : e \in {f \in o.is_a : f[1] \in S}}, distance - 1)

RECURSIVE Below(_, _, _)
Below(o, S, distance) ==
    IF distance = 0 THEN S
    ELSE Below(o, S \cup {e[1] : e \in {f \in o.is_a : f[2] \in S}}, distance - 1)

\* concept.superclasses(with_self, distance).to_set(), as identifiers
Superclasses(o, concept, with_self, distance) ==
    IF with_self THEN Above(o, {concept.id}, distance)
    ELSE Above(o, {concept.id}, distance) \ {concept.id}

\* concept.subclasses(with_self, distance).to_set(), as identifiers
Subclasses(o, concept, with_self, distance) ==
    IF with_self THEN Below(o, {concept.id}, distance)
    ELSE Below(o, {concept.id}, distance) \ {concept.id}

----------------------------------------------------------------------------
(* The header of the CodeSystem, lines 47-62 *)

\* A count that leaves the obsolete terms out.
ConceptCountActive(o) == Cardinality({k \in DOMAIN o.terms : ~o.terms[k].obsolete})

\* line 58
ConceptCount(o) == Len(o.terms)

\* lines 47-60: the fields assigned before the date
HeaderFields(o) ==
    [status |-> "active",
     content |-> "complete",
     version |-> VersionBase \o Format(o.metadata.data_version) \o VersionSuffix,
     name |-> "HPO",
     title |-> "Human Phenotype Ontology",
     versionNeeded |-> FALSE,
     experimental |-> codesystem_experimental,
     url |-> codesystem_url,
     valueSet |-> ValueSetUrl,
     count |-> ConceptCount(o),
     copyright |-> "Please see license of HPO at http://www.human-phenotype-ontology.org.",
     purpose |-> "To provide a standardized vocabulary of human phenotypes encountered in human disease in a FHIR context."]

\* The first piece of the token instead of the last.
HeaderDateFirstPiece(o) == Head(Split(o.metadata.data_version.v, "/"))

\* line 61
HeaderDate(o) == Last(Split(o.metadata.data_version.v, "/"))

\* lines 47-62
Header(o) == HeaderFields(o) @@ [date |-> HeaderDate(o), concept |-> <<>>]

----------------------------------------------------------------------------
(* One concept of the CodeSystem, lines 74-146 *)

\* A test that lets every scope but RELATED through.
ScopeNotRelated(synonym) == synonym.scope # "RELATED"

\* line 84
ScopeSelected(synonym) == synonym.scope = "EXACT"

\* lines 82-95: the loop over concept.synonyms
RECURSIVE DesignationsOf(_)
DesignationsOf(synonyms) ==
    IF Len(synonyms) = 0 THEN <<>>
    ELSE LET synonym == Head(synonyms)
         IN  (IF ScopeSelected(synonym)
              THEN <<[language |-> "en", value |-> Str(synonym.description), use |-> SynonymUse]>>
              ELSE <<>>) \o DesignationsOf(Tail(synonyms))

Designations(concept) == DesignationsOf(concept.synonyms)

\* The flag of an active term instead of an inactive one.
InactivePropertyNegated(concept) == <<[code |-> "inactive", valueBoolean |-> ~concept.obsolete]>>

\* lines 105-108
InactiveProperty(concept) == <<[code |-> "inactive", valueBoolean |-> concept.obsolete]>>

\* A test for None instead of a test for truth.
DefinitionPropertyUnlessNone(concept) ==
    IF concept.definition.some
    THEN <<[code |-> "definition", valueString |-> concept.definition.v]>>
    ELSE <<>>

\* lines 111-115
DefinitionProperty(concept) ==
    IF Truthy(concept.definition)
    THEN <<[code |-> "definition", valueString |-> concept.definition.v]>>
    ELSE <<>>

\* The list is assigned, not appended to: the last xref alone remains.
XrefPropertiesLast(xo) ==
    IF Len(xo) = 0 THEN <<>> ELSE <<[code |-> "xref", valueString |-> Str(xo[Len(xo)])]>>

\* lines 118-122, xrefs iterated in the order xo
XrefProperties(xo) == [k \in 1..Len(xo) |-> [code |-> "xref", valueString |-> Str(xo[k])]]

\* lines 125-129, superclasses iterated in the order po
ParentProperties(po) == [k \in 1..Len(po) |-> [code |-> "parent", valueCode |-> Str(po[k])]]

\* lines 132-136, subclasses iterated in the order co
ChildProperties(co) == [k \in 1..Len(co) |-> [code |-> "child", valueCode |-> Str(co[k])]]

\* lines 139-143, subsets iterated in the order so
SubsetProperties(so) == [k \in 1..Len(so) |-> [code |-> "subset", valueString |-> Str(so[k])]]

\* The subclasses before the superclasses.
PropertiesChildFirst(concept, xo, po, co, so) ==
    InactiveProperty(concept) \o DefinitionProperty(concept) \o XrefProperties(xo)
        \o ChildProperties(co) \o ParentProperties(po) \o SubsetProperties(so)

\* lines 102-143
Properties(concept, xo, po, co, so) ==
    InactiveProperty(concept) \o DefinitionProperty(concept) \o XrefProperties(xo)
        \o ParentProperties(po) \o ChildProperties(co) \o SubsetProperties(so)

\* lines 74-77
CodeAndDisplay(concept) == [code |-> Str(concept.id), display |-> Str(concept.name)]

\* lines 74-146: the fields designation and property are assigned only when
\* their lists are not empty
Concept(concept, xo, po, co, so) ==
    LET _designations == Designations(concept)
        _properties == Properties(concept, xo, po, co, so)
    IN  CodeAndDisplay(concept)
            @@ (IF Len(_designations) > 0 THEN [designation |-> _designations] ELSE <<>>)
            @@ (IF Len(_properties) > 0 THEN [property |-> _properties] ELSE <<>>)

\* The term itself among its superclasses.
SuperclassesWithSelf(o, concept) == Superclasses(o, concept, TRUE, 1)

\* line 125 and line 132: the sets the loops iterate
DirectSuperclasses(o, concept) == Superclasses(o, concept, FALSE, 1)
DirectSubclasses(o, concept) == Subclasses(o, concept, FALSE, 1)

\* An obsolete term is left out of the document.
AppendConceptUnlessObsolete(doc, c) ==
    IF c.property[1].valueBoolean THEN doc ELSE [doc EXCEPT !.concept = Append(@, c)]

\* line 151
AppendConcept(doc, c) == [doc EXCEPT !.concept = Append(@, c)]

----------------------------------------------------------------------------
(* The run *)

NoOntology == [loaded |-> FALSE]
NoDocument == [built |-> FALSE]
Absent == [state |-> "absent"]       \* the file does not exist
Old == [state |-> "old"]             \* the file exists, written before this run
Empty == [state |-> "empty"]
Partial == [state |-> "partial"]
Written(doc) == [state |-> "written", doc |-> doc]

Init ==
    /\ IsOntology(source)
    /\ hpo = NoOntology
    /\ stelsel = NoDocument
    /\ i = 0
    /\ pc = "start"
    /\ file \in {Absent, Old}
    /\ run = 1
    /\ prev = NoDocument

\* line 40: the ontology is fetched and parsed
Load ==
    /\ pc = "start"
    /\ hpo' = source
    /\ pc' = "loaded"
    /\ UNCHANGED <<source, stelsel, i, file, run, prev>>

\* line 40: the provider raises (source unavailable or malformed)
LoadFail ==
    /\ pc = "start"
    /\ pc' = "failed"
    /\ UNCHANGED <<source, hpo, stelsel, i, file, run, prev>>

\* lines 47-62
BuildHeader ==
    /\ pc = "loaded"
    /\ hpo.metadata.data_version.some
    /\ stelsel' = Header(hpo)
    /\ i' = 0
    /\ pc' = "loop"
    /\ UNCHANGED <<source, hpo, file, run, prev>>

\* lines 47-61: None has no split, line 61 raises
HeaderFail ==
    /\ pc = "loaded"
    /\ ~hpo.metadata.data_version.some
    /\ stelsel' = HeaderFields(hpo)
    /\ pc' = "failed"
    /\ UNCHANGED <<source, hpo, i, file, run, prev>>

\* lines 71-151: one iteration of the loop over hpo.terms()
MapTerm ==
    /\ pc = "loop"
    /\ i < Len(hpo.terms)
    /\ LET concept == hpo.terms[i + 1]
       IN  \E xo \in Orders(concept.xrefs), po \in Orders(DirectSuperclasses(hpo, concept)),
              co \in Orders(DirectSubclasses(hpo, concept)), so \in Orders(concept.subsets) :
                stelsel' = AppendConcept(stelsel, Concept(concept, xo, po, co, so))
    /\ i' = i + 1
    /\ UNCHANGED <<source, hpo, pc, file, run, prev>>

\* lines 74-146: a constructor of the resource model rejects a value
MapFail ==
    /\ pc = "loop"
    /\ i < Len(hpo.terms)
    /\ pc' = "failed"
    /\ UNCHANGED <<source, hpo, stelsel, i, file, run, prev>>

\* line 156: open(filename_output, 'w') creates or truncates the file
Open ==
    /\ pc = "loop"
    /\ i = Len(hpo.terms)
    /\ file' = Empty
    /\ pc' = "opened"
    /\ UNCHANGED <<source, hpo, stelsel, i, run, prev>>

\* line 156: the path is not writable
OpenFail ==
    /\ pc = "loop"
    /\ i = Len(hpo.terms)
    /\ pc' = "failed"
    /\ UNCHANGED <<source, hpo, stelsel, i, file, run, prev>>

\* line 157: json.dumps(stelsel.dict(), ...), evaluated with the file open
Serialize ==
    /\ pc = "opened"
    /\ pc' = "serialized"
    /\ UNCHANGED <<source, hpo, stelsel, i, file, run, prev>>

\* line 157: the serialization raises
SerializeFail ==
    /\ pc = "opened"
    /\ pc' = "failed"
    /\ UNCHANGED <<source, hpo, stelsel, i, file, run, prev>>

\* line 157: outfile.write, and the file is closed on leaving the with block
Write ==
    /\ pc = "serialized"
    /\ file' = Written(stelsel)
    /\ pc' = "done"
    /\ UNCHANGED <<source, hpo, stelsel, i, run, prev>>

\* line 157: the write raises part way (device full)
WriteFail ==
    /\ pc = "serialized"
    /\ file' = Partial
    /\ pc' = "failed"
    /\ UNCHANGED <<source, hpo, stelsel, i, run, prev>>

Next ==
    \/ Load
    \/ LoadFail
    \/ BuildHeader
    \/ HeaderFail
    \/ MapTerm
    \/ MapFail
    \/ Open
    \/ OpenFail
    \/ Serialize
    \/ SerializeFail
    \/ Write
    \/ WriteFail

Spec == Init /\ [][Next]_vars

\* The content of a document: each concept's properties as a multiset
\* (property |-> how many times it occurs), everything else as it is.
Multiset(seq) == [x \in Range(seq) |-> Cardinality({k \in DOMAIN seq : seq[k] = x})]
Content(doc) ==
    [doc EXCEPT !.concept = [k \in DOMAIN @ |->
        IF "property" \in DOMAIN @[k] THEN [@[k] EXCEPT !.property = Multiset(@)] ELSE @[k]]]

MaxRuns == 2

\* lines 160-161: the program is run again on the unchanged snapshot; the
\* file the earlier run wrote is there, and prev keeps that run's content
Rerun ==
    /\ pc = "done"
    /\ run < MaxRuns
    /\ prev' = Content(file.doc)
    /\ file' = Old
    /\ run' = run + 1
    /\ hpo' = NoOntology
    /\ stelsel' = NoDocument
    /\ i' = 0
    /\ pc' = "start"
    /\ UNCHANGED source

NextRerun == Next \/ Rerun

SpecRerun == Init /\ [][NextRerun]_vars

----------------------------------------------------------------------------
(* Vocabulary of the properties *)

\* The document exists with all its header fields
HasDocument == pc \in {"loop", "opened", "serialized", "done"}

\* The loop of line 71 has ended
LoopFinished == pc \in {"opened", "serialized", "done"}

\* The positions of the properties of entry e that have code c
WithCode(e, c) == {k \in DOMAIN e.property : e.property[k].code = c}

\* The entries built so far, each with the term it was built from
Built == {<<stelsel.concept[k], source.terms[k]>> : k \in 1..Len(stelsel.concept)}

IsExact(synonym) == synonym.scope = "EXACT"

----------------------------------------------------------------------------
\* C1: when the loop has finished, the document has exactly one entry per term
\* of the ontology, entry k has the identifier of term k as its code and the
\* name of term k as its display, and no two entries share a code; obsolete
\* terms are not left out.
C1_OneEntryPerTerm ==
    LoopFinished =>
        /\ Len(stelsel.concept) = Len(source.terms)
        /\ \A k \in 1..Len(source.terms) :
              /\ stelsel.concept[k].code = source.terms[k].id
              /\ stelsel.concept[k].display = source.terms[k].name
        /\ \A j, k \in 1..Len(stelsel.concept) :
              stelsel.concept[j].code = stelsel.concept[k].code => j = k

C1_Witness ==
    /\ pc = "done"
    /\ Len(stelsel.concept) = MaxTerms
    /\ source.terms[1].obsolete
    /\ ~source.terms[2].obsolete
    /\ source.terms[1].name # source.terms[2].name

\* C2: count is the number of terms from the moment the header is built and
\* stays so; the entries never outnumber it, and in the document that reaches
\* the file count is the number of entries.
C2_CountIsNumberOfEntries ==
    /\ HasDocument =>
          /\ stelsel.count = Len(source.terms)
          /\ Len(stelsel.concept) <= stelsel.count
    /\ LoopFinished => stelsel.count = Len(stelsel.concept)
    /\ file.state = "written" => file.doc.count = Len(file.doc.concept)

C2_Witness ==
    /\ file.state = "written"
    /\ file.doc.count = MaxTerms
    /\ \E k \in 1..MaxTerms : source.terms[k].obsolete

\* C3: a run that fails leaves the output file as it was before the run:
\* not created, not truncated, not partially written.
C3_NoPartialOutcome == pc = "failed" => file \in {Absent, Old}

\* C4: the designations of an entry are the texts of the EXACT synonyms of
\* its term, in the order of the synonyms, each with language "en" and the
\* Synonym use; an entry whose term has no EXACT synonym has no designation
\* field.
C4_DesignationsAreExactSynonyms ==
    HasDocument =>
        \A b \in Built :
            LET exact == SelectSeq(b[2].synonyms, IsExact)
            IN  IF Len(exact) = 0
                THEN "designation" \notin DOMAIN b[1]
                ELSE /\ "designation" \in DOMAIN b[1]
                     /\ Len(b[1].designation) = Len(exact)
                     /\ \A k \in 1..Len(exact) :
                           /\ b[1].designation[k].value = exact[k].description
                           /\ b[1].designation[k].language = "en"
                           /\ b[1].designation[k].use =
                                 [system |-> "http://snomed.info/sct",
                                  code |-> "900000000000013009",
                                  display |-> "Synonym"]

C4_Witness ==
    /\ pc = "done"
    /\ \E b \in Built :
          /\ Len(b[2].synonyms) = MaxSyn
          /\ b[2].synonyms[1].scope = "BROAD"
          /\ "designation" \in DOMAIN b[1]
          /\ Len(b[1].designation) = MaxSyn - 1
    /\ \E b \in Built :
          /\ Len(b[2].synonyms) > 0
          /\ "designation" \notin DOMAIN b[1]

\* C5: every entry has a property field, in which exactly one property has
\* code inactive, and its value is the obsolete flag of the term.
C5_OneInactiveProperty ==
    HasDocument =>
        \A b \in Built :
            /\ "property" \in DOMAIN b[1]
            /\ Len(b[1].property) > 0
            /\ Cardinality(WithCode(b[1], "inactive")) = 1
            /\ \A k \in WithCode(b[1], "inactive") :
                  b[1].property[k].valueBoolean = b[2].obsolete

C5_Witness ==
    /\ pc = "done"
    /\ \E b \in Built : b[2].obsolete /\ Len(b[1].property) = 1
    /\ \E b \in Built : ~b[2].obsolete /\ Len(b[1].property) > 1

\* C6: an entry whose term has a non-empty definition has exactly one
\* property with code definition, whose value is that text; an entry whose
\* term has an empty definition or none has no such property.
C6_DefinitionProperty ==
    HasDocument =>
        \A b \in Built :
            IF b[2].definition.some /\ b[2].definition.v # ""
            THEN /\ Cardinality(WithCode(b[1], "definition")) = 1
                 /\ \A k \in WithCode(b[1], "definition") :
                       b[1].property[k].valueString = b[2].definition.v
            ELSE WithCode(b[1], "definition") = {}

C6_Witness ==
    /\ pc = "done"
    /\ \E b \in Built : b[2].definition = Some("") /\ WithCode(b[1], "definition") = {}
    /\ \E b \in Built : b[2].definition = None
    /\ \E b \in Built : WithCode(b[1], "definition") # {}

\* C7: an entry has one parent property for each term directly above its
\* term and one child property for each term directly below it, no two for
\* the same identifier and none for other identifiers; none when there is no
\* such term; the term itself is never among them.
C7_ParentsAndChildren ==
    HasDocument =>
        \A b \in Built :
            LET parents == {e[2] : e \in {f \in source.is_a : f[1] = b[2].id}} \ {b[2].id}
                children == {e[1] : e \in {f \in source.is_a : f[2] = b[2].id}} \ {b[2].id}
                P == WithCode(b[1], "parent")
                C == WithCode(b[1], "child")
            IN  /\ Cardinality(P) = Cardinality(parents)
                /\ {b[1].property[k].valueCode : k \in P} = parents
                /\ Cardinality(C) = Cardinality(children)
                /\ {b[1].property[k].valueCode : k \in C} = children
                /\ \A k \in P \cup C : b[1].property[k].valueCode # b[2].id

C7_Witness ==
    /\ pc = "done"
    /\ Len(source.terms) = MaxTerms
    /\ \E b \in Built :
          /\ Cardinality(WithCode(b[1], "parent")) = 1
          /\ Cardinality(WithCode(b[1], "child")) = 1
    /\ \E b \in Built :
          /\ Above(source, {b[2].id}, 2) # Above(source, {b[2].id}, 1)
          /\ WithCode(b[1], "child") = {}

\* C8: date is the part of the metadata version token after its last "/",
\* the whole token when it has none; version is the base URI, the token
\* unchanged, and the suffix.
C8_DateAndVersion ==
    HasDocument =>
        LET token == source.metadata.data_version.v
            n == Len(token)
        IN  /\ \E k \in 0..n :
                  /\ stelsel.date = SubSeq(token, k + 1, n)
                  /\ k > 0 => token[k] = "/"
            /\ \A k \in 1..Len(stelsel.date) : stelsel.date[k] # "/"
            /\ (\A k \in 1..n : token[k] # "/") => stelsel.date = token
            /\ stelsel.version = VersionBase \o token \o VersionSuffix

C8_Witness ==
    /\ pc = "done"
    /\ source.metadata.data_version = Some(<<"r", "/", "1">>)
    /\ stelsel.date = <<"1">>

\* C9: a second run on the unchanged snapshot writes a document with the
\* content of the first: the same header, the same entries in the same
\* order with the same designations in the same order, and for each entry
\* the same multiset of properties.
C9_RerunSameContent ==
    (run > 1 /\ file.state = "written") => Content(file.doc) = prev

C9_Witness ==
    /\ run > 1
    /\ file.state = "written"
    /\ \E k \in 1..Len(file.doc.concept) :
          /\ Cardinality(WithCode(file.doc.concept[k], "xref")) = 2
          /\ Cardinality(WithCode(file.doc.concept[k], "subset")) = 2
          /\ "designation" \in DOMAIN file.doc.concept[k]
          /\ LET x == CHOOSE j \in WithCode(file.doc.concept[k], "xref") :
                         \A m \in WithCode(file.doc.concept[k], "xref") : j <= m
             IN  file.doc.concept[k].property[x].valueString = "UMLS:C0036572"
    /\ \E k \in 1..Len(file.doc.concept) :
          LET x == CHOOSE j \in WithCode(file.doc.concept[k], "xref") :
                       \A m \in WithCode(file.doc.concept[k], "xref") : j <= m
          IN  /\ Cardinality(WithCode(file.doc.concept[k], "xref")) = 2
              /\ file.doc.concept[k].property[x].valueString = "SNOMEDCT_US:91175000"

\* C10: in every entry the properties come in the order inactive,
\* definition, xref, parent, child, subset, and the first one is inactive.
GroupRank(code) ==
    CASE code = "inactive" -> 1
      [] code = "definition" -> 2
      [] code = "xref" -> 3
      [] code = "parent" -> 4
      [] code = "child" -> 5
      [] code = "subset" -> 6
      [] OTHER -> 0

C10_PropertyGroupOrder ==
    HasDocument =>
        \A b \in Built :
            /\ b[1].property[1].code = "inactive"
            /\ \A j, k \in DOMAIN b[1].property :
                  j < k => GroupRank(b[1].property[j].code) <= GroupRank(b[1].property[k].code)
            /\ \A k \in DOMAIN b[1].property : GroupRank(b[1].property[k].code) > 0

C10_Witness ==
    /\ pc = "done"
    /\ \E b \in Built :
          \A c \in {"inactive", "definition", "xref", "parent", "child", "subset"} :
              WithCode(b[1], c) # {}

====
